---- MODULE Spec2Model ----
(***************************************************************************)
(* Model of the TeachAssist grade scraper, pages/api/getCourses.ts.        *)
(*                                                                         *)
(* One inbound call of handler is a small sequential process whose only   *)
(* suspension points are its awaits (the CORS middleware, the login       *)
(* request, one detail request per course).  Between two awaits the code  *)
(* runs to completion, so each action below is the code between two       *)
(* awaits.  Text is modelled by TLA+ strings, handled character by        *)
(* character with the operators of the first section; an optional value   *)
(* (a JavaScript value that may be undefined) is a sequence of length 0   *)
(* or 1.                                                                   *)
(***************************************************************************)
EXTENDS Integers, Sequences, FiniteSets, TLC

(***************************************************************************)
(* Bounds of the model.                                                    *)
(***************************************************************************)
NumCalls == 2      \* calls of handler that run interleaved (SpecConc)
MaxFault == 3      \* a network fault can hit outbound request 1..MaxFault

(***************************************************************************)
(* JavaScript string operations.                                           *)
(***************************************************************************)
None == <<>>
Some(v) == <<v>>

CharAt(s, k) == SubSeq(s, k, k)

StartsAt(s, p, k) ==
    /\ k >= 1
    /\ k + Len(p) - 1 <= Len(s)
    /\ SubSeq(s, k, k + Len(p) - 1) = p

\* String.prototype.includes
includes(s, p) == \E k \in 1..(Len(s) - Len(p) + 1) : StartsAt(s, p, k)

\* 1-based position of the first occurrence of p in s, 0 when there is none
IndexOf(s, p) ==
    IF includes(s, p)
    THEN CHOOSE k \in 1..Len(s) :
            StartsAt(s, p, k) /\ \A j \in 1..(k - 1) : ~StartsAt(s, p, j)
    ELSE 0

\* String.prototype.split with a non-empty separator; k is the position of
\* the first separator in s
RECURSIVE SplitAt(_, _, _)
SplitAt(s, sep, k) ==
    IF k = 0 THEN <<s>>
    ELSE <<SubSeq(s, 1, k - 1)>>
         \o SplitAt(SubSeq(s, k + Len(sep), Len(s)), sep,
                    IndexOf(SubSeq(s, k + Len(sep), Len(s)), sep))

split(s, sep) == SplitAt(s, sep, IndexOf(s, sep))

\* String.prototype.replaceAll with a non-empty string pattern; k is the
\* position of the first occurrence of p in s
RECURSIVE ReplaceFrom(_, _, _, _)
ReplaceFrom(s, p, r, k) ==
    IF k = 0 THEN s
    ELSE SubSeq(s, 1, k - 1) \o r
         \o ReplaceFrom(SubSeq(s, k + Len(p), Len(s)), p, r,
                        IndexOf(SubSeq(s, k + Len(p), Len(s)), p))

replaceAll(s, p, r) == ReplaceFrom(s, p, r, IndexOf(s, p))

\* String.prototype.replace with a string pattern: the first occurrence only
ReplaceAt(s, p, r, k) ==
    IF k = 0 THEN s ELSE SubSeq(s, 1, k - 1) \o r \o SubSeq(s, k + Len(p), Len(s))

replace(s, p, r) == ReplaceAt(s, p, r, IndexOf(s, p))

IsSpace(ch) == ch \in {" ", "\n", "\t"}

RECURSIVE trimStart(_)
trimStart(s) ==
    IF Len(s) > 0 /\ IsSpace(CharAt(s, 1)) THEN trimStart(SubSeq(s, 2, Len(s))) ELSE s

RECURSIVE trimEnd(_)
trimEnd(s) ==
    IF Len(s) > 0 /\ IsSpace(CharAt(s, Len(s))) THEN trimEnd(SubSeq(s, 1, Len(s) - 1)) ELSE s

\* String.prototype.trim
trim(s) == trimEnd(trimStart(s))

\* arr[k] of JavaScript (k counted from 0): the element, or undefined (None)
At(arr, k) == IF k + 1 <= Len(arr) THEN Some(arr[k + 1]) ELSE None

\* `x || d` for a string x that may be undefined: "" and undefined are falsy
OrElse(opt, d) == IF opt = None \/ opt = Some("") THEN d ELSE opt[1]

RECURSIVE Concat(_)
Concat(strs) == IF strs = <<>> THEN "" ELSE Head(strs) \o Concat(Tail(strs))

(***************************************************************************)
(* parseFloat.  A number is [int, frac]: the integer part and the digits   *)
(* after the point without trailing zeros; NaN is a value of its own.      *)
(* Signs, exponents and "Infinity" do not occur in the pages of the model. *)
(***************************************************************************)
NaN == <<"NaN">>
Num(n, f) == <<"num", n, f>>
IsNum(v) == Len(v) = 3 /\ v[1] = "num"
Zero == Num(0, "")

Digits == <<"0", "1", "2", "3", "4", "5", "6", "7", "8", "9">>
IsDigit(ch) == \E d \in 1..10 : Digits[d] = ch
DigitVal(ch) == (CHOOSE d \in 1..10 : Digits[d] = ch) - 1

\* the longest prefix of s made of digits
RECURSIVE DigitPrefix(_)
DigitPrefix(s) ==
    IF Len(s) > 0 /\ IsDigit(CharAt(s, 1))
    THEN CharAt(s, 1) \o DigitPrefix(SubSeq(s, 2, Len(s)))
    ELSE ""

RECURSIVE DigitsVal(_)
DigitsVal(ds) ==
    IF ds = "" THEN 0
    ELSE 10 * DigitsVal(SubSeq(ds, 1, Len(ds) - 1)) + DigitVal(CharAt(ds, Len(ds)))

RECURSIVE StripZeros(_)
StripZeros(ds) ==
    IF Len(ds) > 0 /\ CharAt(ds, Len(ds)) = "0" THEN StripZeros(SubSeq(ds, 1, Len(ds) - 1)) ELSE ds

\* the digits after the point, when rest starts with a point
FractionOf(rest) ==
    IF Len(rest) > 0 /\ CharAt(rest, 1) = "."
    THEN DigitPrefix(SubSeq(rest, 2, Len(rest)))
    ELSE ""

NumberOf(ip, fp) == IF ip = "" /\ fp = "" THEN NaN ELSE Num(DigitsVal(ip), StripZeros(fp))

ParseDigits(s, ip) == NumberOf(ip, FractionOf(SubSeq(s, Len(ip) + 1, Len(s))))

ParseTrimmed(s) == ParseDigits(s, DigitPrefix(s))

parseFloat(str) == ParseTrimmed(trimStart(str))

\* truthiness of a number: 0 and NaN are falsy
Truthy(v) == IsNum(v) /\ v # Zero

(***************************************************************************)
(* An exception raised by a step is the outcome [t |-> "throw"]; a normal  *)
(* completion is [t |-> "ok", v |-> value].                                *)
(***************************************************************************)
Throw == [t |-> "throw"]
Ok(v) == [t |-> "ok", v |-> v]

(***************************************************************************)
(* parseOverallMark.  x.split(sep)[1].split("%")[0] raises a TypeError     *)
(* when sep does not occur in x, because [1] is then undefined.            *)
(***************************************************************************)
NA == <<"N/A">>

\* parseFloat(parts[1].split("%")[0]) for parts = mark.split(token)
NumberAfter(parts) ==
    IF Len(parts) < 2 THEN Throw ELSE Ok(parseFloat(split(parts[2], "%")[1]))

ExtractAfter(mark, token) == NumberAfter(split(mark, token))

\* the two assignments of a branch: the mark, then the flag
MarkResult(extracted, isFinal, isMidterm) ==
    IF extracted.t = "throw" THEN Throw
    ELSE Ok([mark |-> extracted.v, isFinal |-> isFinal, isMidterm |-> isMidterm])

\* ParseCleaned with the test of the current mark before the one of the
\* final mark
CurrentBeforeFinal(mark) ==
    IF includes(mark, "currentmark")
    THEN MarkResult(ExtractAfter(mark, "currentmark="), FALSE, FALSE)
    ELSE IF includes(mark, "FINAL")
    THEN MarkResult(ExtractAfter(mark, "FINALMARK:"), TRUE, FALSE)
    ELSE IF includes(mark, "MIDTERM")
    THEN MarkResult(ExtractAfter(mark, "MIDTERMMARK:"), FALSE, TRUE)
    ELSE Ok([mark |-> NA, isFinal |-> FALSE, isMidterm |-> FALSE])

\* ParseCleaned with independent tests instead of an else-if chain: a text
\* with both words takes the final and the midterm branch
IndependentBranches(mark) ==
    IF includes(mark, "FINAL") /\ includes(mark, "MIDTERM")
    THEN MarkResult(ExtractAfter(mark, "MIDTERMMARK:"), TRUE, TRUE)
    ELSE IF includes(mark, "FINAL")
    THEN MarkResult(ExtractAfter(mark, "FINALMARK:"), TRUE, FALSE)
    ELSE IF includes(mark, "currentmark")
    THEN MarkResult(ExtractAfter(mark, "currentmark="), FALSE, FALSE)
    ELSE IF includes(mark, "MIDTERM")
    THEN MarkResult(ExtractAfter(mark, "MIDTERMMARK:"), FALSE, TRUE)
    ELSE Ok([mark |-> NA, isFinal |-> FALSE, isMidterm |-> FALSE])

\* ParseCleaned with a branch taken only when its token is present: a text
\* with "FINAL" but no "FINALMARK:" goes on to the next pattern
FallsThrough(mark) ==
    IF includes(mark, "FINALMARK:")
    THEN MarkResult(ExtractAfter(mark, "FINALMARK:"), TRUE, FALSE)
    ELSE IF includes(mark, "currentmark=")
    THEN MarkResult(ExtractAfter(mark, "currentmark="), FALSE, FALSE)
    ELSE IF includes(mark, "MIDTERMMARK:")
    THEN MarkResult(ExtractAfter(mark, "MIDTERMMARK:"), FALSE, TRUE)
    ELSE Ok([mark |-> NA, isFinal |-> FALSE, isMidterm |-> FALSE])

\* the branches, on the mark text without its spaces
ParseCleaned(mark) ==
    IF includes(mark, "FINAL")
    THEN MarkResult(ExtractAfter(mark, "FINALMARK:"), TRUE, FALSE)
    ELSE IF includes(mark, "currentmark")
    THEN MarkResult(ExtractAfter(mark, "currentmark="), FALSE, FALSE)
    ELSE IF includes(mark, "MIDTERM")
    THEN MarkResult(ExtractAfter(mark, "MIDTERMMARK:"), FALSE, TRUE)
    ELSE Ok([mark |-> NA, isFinal |-> FALSE, isMidterm |-> FALSE])

\* parseOverallMark without the removal of the spaces
ParseWithSpaces(rawMark) == ParseCleaned(rawMark)

parseOverallMark(rawMark) == ParseCleaned(replaceAll(rawMark, " ", ""))

(***************************************************************************)
(* Course list extraction.  A row of the landing page is                   *)
(* [link |-> optional href of its anchor, text |-> its text content].      *)
(***************************************************************************)
\* TrimFilter without the trim and the filter
KeepAllLines(lines) == lines

\* courseText.map(item => item.trim()).filter(item => item.length > 0)
RECURSIVE TrimFilter(_)
TrimFilter(lines) ==
    IF lines = <<>> THEN <<>>
    ELSE LET t == trim(Head(lines))
         IN  (IF Len(t) > 0 THEN <<t>> ELSE <<>>) \o TrimFilter(Tail(lines))

\* the threshold of `filteredCourse.length > 3`
MinLines == 3

EnoughLines(filteredCourse) == Len(filteredCourse) > MinLines

\* end_time and dropped_time from the 4th non-empty line
EndTime(line) ==
    IF includes(line, "Dropped on") THEN trim(split(line, "Dropped")[1]) ELSE trim(line)

\* DroppedTime with the line split on "Dropped", as for end_time
DroppedAfterDropped(line) ==
    IF includes(line, "Dropped on") THEN trim(split(line, "Dropped")[2]) ELSE ""

DroppedTime(line) ==
    IF includes(line, "Dropped on") THEN trim(split(line, "Dropped on")[2]) ELSE ""

\* overall.mark || "N/A"
MarkOrNA(mark) == IF Truthy(mark) THEN mark ELSE NA

\* the object literal jsonCourse
CourseLiteral(filteredCourse, overall, link) ==
    [code         |-> OrElse(At(split(filteredCourse[1], " : "), 0), "Unknown Code"),
     name         |-> OrElse(At(split(filteredCourse[1], " : "), 1), "Unknown Course"),
     block        |-> OrElse(At(split(replace(filteredCourse[2], "Block: P", ""), " "), 0), "N/A"),
     room         |-> OrElse(At(split(filteredCourse[2], "rm. "), 1), "Unknown Room"),
     start_time   |-> OrElse(At(split(filteredCourse[3], " "), 0), ""),
     end_time     |-> EndTime(filteredCourse[4]),
     dropped_time |-> DroppedTime(filteredCourse[4]),
     overall_mark |-> MarkOrNA(overall.mark),
     isFinal      |-> overall.isFinal,
     isMidterm    |-> overall.isMidterm,
     link         |-> link,
     assignments  |-> <<>>,
     weight_table |-> <<>>]

\* the rest of the body once parseOverallMark has returned or raised
PushCourse(filteredCourse, overall, link) ==
    IF overall.t = "throw" THEN Throw
    ELSE Ok(Some(CourseLiteral(filteredCourse, overall.v, link)))

\* the body from the length test on
FromFiltered(filteredCourse, link) ==
    IF ~EnoughLines(filteredCourse) THEN Ok(None)
    ELSE PushCourse(filteredCourse,
                    parseOverallMark(OrElse(At(filteredCourse, 4), "")), link)

\* the body from the header test on; courseText[1] is undefined, and
\* .includes raises, when the text of the row has no line break
FromLines(courseText, link) ==
    IF Len(courseText) < 2 THEN Throw
    ELSE IF includes(courseText[2], "Course Name") THEN Ok(None)
    ELSE FromFiltered(TrimFilter(courseText), link)

\* the body of the callback of .each for one row: "throw" when the body
\* raises, Ok(None) when the row is skipped, Ok(Some(course)) when pushed
ParseCourseRow(row) == FromLines(split(row.text, "\n"), row.link)

\* the try/catch around the body of the callback: a row that raises is
\* logged and contributes nothing
Caught(outcome) == IF outcome.t = "throw" THEN None ELSE outcome.v

CatchRow(row) == Caught(ParseCourseRow(row))

\* what row k adds to the list, with the position of the row
Pushed(course, k) == IF course = None THEN <<>> ELSE <<[row |-> k, course |-> course[1]]>>

\* ExtractFrom with one try/catch around the whole loop: the first row that
\* raises ends the extraction
RECURSIVE ExtractUntilError(_, _)
ExtractUntilError(rows, k) ==
    IF k > Len(rows) THEN <<>>
    ELSE IF ParseCourseRow(rows[k]).t = "throw" THEN <<>>
    ELSE Pushed(CatchRow(rows[k]), k) \o ExtractUntilError(rows, k + 1)

\* $(".green_border_message div table tr").each(...): the pushed courses in
\* document order, each with the position of the row it was made from
RECURSIVE ExtractFrom(_, _)
ExtractFrom(rows, k) ==
    IF k > Len(rows) THEN <<>>
    ELSE Pushed(CatchRow(rows[k]), k) \o ExtractFrom(rows, k + 1)

CoursesOf(extracted) == [k \in 1..Len(extracted) |-> extracted[k].course]
OriginsOf(extracted) == [k \in 1..Len(extracted) |-> extracted[k].row]

ExtractCourses(rows) == CoursesOf(ExtractFrom(rows, 1))
ExtractOrigins(rows) == OriginsOf(ExtractFrom(rows, 1))

(***************************************************************************)
(* Assignment table parser.  A course detail page is                       *)
(* [trs |-> the rows reached by $('table[width="100%"]').children()        *)
(*          .children(), wrows |-> the rows of $('table[cellpadding="5"]')]*)
(* A row of trs is a sequence of cells [rowspan2, bgcolor, text]; a row of *)
(* wrows is [bgcolor, cells], cells being the texts of its children.       *)
(***************************************************************************)
AssignmentColours ==
    << <<"KU", "ffffaa">>, <<"A", "ffd490">>, <<"T", "c0fea4">>,
       <<"C", "afafff">>, <<"O", "eeeeee">>, <<"F", "#dedede">> >>

WeightColours ==
    << <<"KU", "ffffaa">>, <<"A", "ffd490">>, <<"T", "c0fea4">>,
       <<"C", "afafff">>, <<"O", "eeeeee">>, <<"F", "cccccc">> >>

EmptyMap == <<>>

\* $(elem).text(): the text of the cells of the row, in document order
RECURSIVE ElemText(_)
ElemText(tr) == IF tr = <<>> THEN "" ELSE Head(tr).text \o ElemText(Tail(tr))

\* $(elem).find('td[rowspan="2"]').text()
RECURSIVE RowspanText(_)
RowspanText(tr) ==
    IF tr = <<>> THEN ""
    ELSE (IF Head(tr).rowspan2 THEN Head(tr).text ELSE "") \o RowspanText(Tail(tr))

\* $(elem).find(`td[bgcolor="${colour}"]`).text()
RECURSIVE ColourText(_, _)
ColourText(tr, colour) ==
    IF tr = <<>> THEN ""
    ELSE (IF Head(tr).bgcolor = colour THEN Head(tr).text ELSE "")
         \o ColourText(Tail(tr), colour)

Placeholder == [get |-> Zero, total |-> Zero, weight |-> Zero, finished |-> TRUE]

\* MarkOf with "finished" read as the label of a finished item
MarkOfFinishedLabel(category, bySlash, byWeight) ==
    IF Len(bySlash) < 2 \/ Len(byWeight) < 2 THEN Throw
    ELSE Ok([get      |-> parseFloat(bySlash[1]),
             total    |-> parseFloat(split(bySlash[2], " = ")[1]),
             weight   |-> parseFloat(split(byWeight[2], "\n")[1]),
             finished |-> includes(category, "finished")])

\* the object literal of one category mark; x.split(sep)[1] is undefined
\* when sep does not occur in x and the following .split raises
MarkOf(category, bySlash, byWeight) ==
    IF Len(bySlash) < 2 \/ Len(byWeight) < 2 THEN Throw
    ELSE Ok([get      |-> parseFloat(bySlash[1]),
             total    |-> parseFloat(split(bySlash[2], " = ")[1]),
             weight   |-> parseFloat(split(byWeight[2], "\n")[1]),
             finished |-> ~includes(category, "finished")])

MarkLiteral(category) ==
    MarkOf(category, split(category, " / "), split(category, "weight="))

\* the try/catch around the object literal
MarkOrPlaceholder(literal) == IF literal.t = "throw" THEN Placeholder ELSE literal.v

ParseMark(category) == MarkOrPlaceholder(MarkLiteral(category))

\* WithCategory without the test of the text: every key is set
AlwaysWithCategory(assignment, key, category) ==
    (key :> <<ParseMark(category)>>) @@ assignment

\* `if (category)`: the key is set when the text of the cells is not empty
WithCategory(assignment, key, category) ==
    IF category # "" THEN (key :> <<ParseMark(category)>>) @@ assignment ELSE assignment

\* the forEach over the six (code, colour) pairs, for pairs k..6
RECURSIVE AddCategories(_, _, _)
AddCategories(assignment, tr, k) ==
    IF k > Len(AssignmentColours) THEN assignment
    ELSE AddCategories(
           WithCategory(assignment, AssignmentColours[k][1],
                        trim(replaceAll(ColourText(tr, AssignmentColours[k][2]), "\t", ""))),
           tr, k + 1)

ParseAssignmentRow(tr) ==
    AddCategories("name" :> replaceAll(RowspanText(tr), "\t", ""), tr, 1)

\* IsFeedbackPosition with the parity of a counter that starts at 0
OddIsFeedback(counter) == counter % 2 = 1

\* a row at an even counter sets the feedback of the last assignment when
\* the counter is greater than 2, and is never parsed as an assignment
IsFeedbackPosition(counter) == counter % 2 = 0

\* SetFeedback with the feedback written to every assignment of the list
SetFeedbackOnAll(assignments, text) ==
    [j \in 1..Len(assignments) |-> ("feedback" :> text) @@ assignments[j]]

\* assignments[assignments.length - 1].feedback = text
SetFeedback(assignments, text) ==
    [assignments EXCEPT ![Len(assignments)] = ("feedback" :> text) @@ @]

\* the callback of .each over the rows k..Len(trs); cnt is the counter
\* after the increment for row k.  The write to the last element raises
\* when the list is empty.
RECURSIVE EachRow(_, _, _, _)
EachRow(trs, k, cnt, assignments) ==
    IF k > Len(trs) THEN Ok(assignments)
    ELSE IF IsFeedbackPosition(cnt)
    THEN IF cnt > 2
         THEN IF assignments = <<>> THEN Throw
              ELSE EachRow(trs, k + 1, cnt + 1,
                           SetFeedback(assignments, trim(ElemText(trs[k]))))
         ELSE EachRow(trs, k + 1, cnt + 1, assignments)
    ELSE EachRow(trs, k + 1, cnt + 1, Append(assignments, ParseAssignmentRow(trs[k])))

\* ParseAssignments with a counter that is 1 when the first row is examined
ParseFromZero(trs) == EachRow(trs, 1, 1, <<>>)

\* the counter starts at 1 and is incremented before the first row
FirstCounter == 1

ParseAssignments(trs) == EachRow(trs, 1, FirstCounter + 1, <<>>)

(***************************************************************************)
(* Weight table parser.                                                    *)
(***************************************************************************)
\* the texts, trimmed, of the children of one row
TrimmedCells(cells) == [k \in 1..Len(cells) |-> trim(cells[k])]

\* the texts, trimmed, of the children of the rows with the given colour
RECURSIVE CollectWeights(_, _)
CollectWeights(wrows, colour) ==
    IF wrows = <<>> THEN <<>>
    ELSE (IF Head(wrows).bgcolor = "#" \o colour
          THEN TrimmedCells(Head(wrows).cells)
          ELSE <<>>)
         \o CollectWeights(Tail(wrows), colour)

\* StartsWithFinal without the test: no category is read from index 0
NeverFinal(weights) == FALSE

\* weights[0]?.includes("Final")
StartsWithFinal(weights) == Len(weights) > 0 /\ includes(weights[1], "Final")

\* WeightTriple with `weights[k]?.replace("%", "") || "0"`: a value that
\* is missing reads as 0
WeightTripleWithDefaults(weights, index) ==
    Ok([W  |-> parseFloat(OrElse(At([k \in 1..Len(weights) |-> replace(weights[k], "%", "")], index), "0")),
        CW |-> parseFloat(OrElse(At([k \in 1..Len(weights) |-> replace(weights[k], "%", "")], index + 1), "0")),
        SA |-> parseFloat(OrElse(At([k \in 1..Len(weights) |-> replace(weights[k], "%", "")], index + 2), "0"))])

\* the object literal read from index (counted from 0); weights[k].replace
\* raises when weights[k] is undefined
WeightTriple(weights, index) ==
    IF Len(weights) < index + 3 THEN Throw
    ELSE Ok([W  |-> parseFloat(replace(weights[index + 1], "%", "")),
             CW |-> parseFloat(replace(weights[index + 2], "%", "")),
             SA |-> parseFloat(replace(weights[index + 3], "%", ""))])

\* the body of the try
WeightEntry(weights) ==
    IF StartsWithFinal(weights)
    THEN WeightTriple([weights EXCEPT ![1] = "0%"], 0)
    ELSE WeightTriple(weights, 1)

\* WithWeight with a catch that ends the forEach: the pairs after one whose
\* body raises are left out too
WithWeightUntilError(weight_table, key, entry) ==
    IF entry.t = "throw" \/ "stopped" \in DOMAIN weight_table
    THEN ("stopped" :> TRUE) @@ weight_table
    ELSE (key :> entry.v) @@ weight_table

\* the catch: a pair whose body raises is left out
WithWeight(weight_table, key, entry) ==
    IF entry.t = "throw" THEN weight_table ELSE (key :> entry.v) @@ weight_table

\* the forEach over the six (code, colour) pairs, for pairs k..6
RECURSIVE AddWeights(_, _, _)
AddWeights(weight_table, wrows, k) ==
    IF k > Len(WeightColours) THEN weight_table
    ELSE AddWeights(
           WithWeight(weight_table, WeightColours[k][1],
                      WeightEntry(CollectWeights(wrows, WeightColours[k][2]))),
           wrows, k + 1)

ParseWeightTable(wrows) == AddWeights(EmptyMap, wrows, 1)

(***************************************************************************)
(* The portal.  It is outside the program: the model fixes a few students  *)
(* with their pages.  The login page of a student is [head, rows]; its     *)
(* markup, as read by textData.includes, holds the text of head and of     *)
(* every row.                                                              *)
(***************************************************************************)
Row(link, text) == [link |-> link, text |-> text]
Td(rowspan2, bgcolor, text) == [rowspan2 |-> rowspan2, bgcolor |-> bgcolor, text |-> text]
WRow(bgcolor, cells) == [bgcolor |-> bgcolor, cells |-> cells]

HeaderRow == Row(None, "\nCourse Name\nDate\nMark\n")

AmyLanding ==
    [head |-> "Student Reports",
     rows |-> << HeaderRow,
                 Row(Some("a1"), "\nICS4U : CompSci\nBlock: P1 - rm. 204\n02-03 ~\n06-20\ncurrent mark = 87.5%\n"),
                 Row(Some("a2"), "\nMHF4U : Functions\nBlock: P2 - rm. 110\n02-03 ~\n06-20 Dropped on 05-15\nFINAL MARK: 90%\n") >>]

BobLanding ==
    [head |-> "Student Reports",
     rows |-> << HeaderRow,
                 Row(Some("b1"), "ENG4U : English\n Block: P3 - rm. 12\n 02-03 ~\n 06-20\n MIDTERM MARK: 71%"),
                 Row(None, "no line break"),
                 Row(None, "\nLunch\nBlock: P4\n02-03\n"),
                 Row(Some("bx"), "\nSPH4U : Physics\nBlock: P5 - rm. 7\n02-03 ~\n06-20\nFINAL pending\n"),
                 Row(None, "\nGLC2O : Careers\nBlock: P4 - rm. 3\n02-03 ~\n06-20\n") >>]

CatLanding == [head |-> "Student Reports", rows |-> <<>>]
DanLanding == [head |-> "Access Denied", rows |-> <<>>]
EveLanding ==
    [head |-> "Session Expired. Access Denied.",
     rows |-> << Row(Some("e1"), "\nSCH4U : Chemistry\nBlock: P1 - rm. 9\n02-03 ~\n06-20\n") >>]
FayLanding ==
    [head |-> "Session Expired",
     rows |-> << Row(None, "\nAccess Denied\n"), Row(None, "\nInvalid Login\n") >>]
GusLanding == [head |-> "Your Session Expired", rows |-> <<>>]
BadLoginPage == [head |-> "Invalid Login", rows |-> <<>>]

\* mark lines with two patterns, with the mark 0 and without a number
HalLanding ==
    [head |-> "Student Reports",
     rows |-> << HeaderRow,
                 Row(Some("h1"), "\nCHC2D : History\nBlock: P1 - rm. 21\n09-05 ~\n01-30\nMIDTERM MARK: 60% FINAL MARK: 70%\n"),
                 Row(Some("h2"), "\nPPL2O : Phys Ed\nBlock: P2 - rm. gym\n09-05 ~\n01-30\ncurrent mark = 0%\n"),
                 Row(Some("h3"), "\nAVI2O : Art\nBlock: P3 - rm. 5\n09-05 ~\n01-30\nFINAL MARK: %\n"),
                 Row(Some("h4"), "\nFSF2D : French\nBlock: P4 - rm. 8\n09-05 ~\n01-30 Dropped on 11-12\ncurrent mark = 65% FINAL MARK: 81.5%\n"),
                 Row(Some("h5"), "\nSNC2D : Science\nBlock: P5 - rm. 12\n09-05 ~\n01-30\nMIDTERM MARK: 0%\n") >>]

\* one course
IvyLanding ==
    [head |-> "Student Reports",
     rows |-> << HeaderRow,
                 Row(Some("i1"), "\nMPM2D : Math\nBlock: P1 - rm. 101\n09-05 ~\n01-30\ncurrent mark = 78%\n") >>]

\* two courses whose detail pages have the same markup
JonLanding ==
    [head |-> "Student Reports",
     rows |-> << HeaderRow,
                 Row(Some("j1"), "\nENG3U : English\nBlock: P1 - rm. 30\n09-05 ~\n01-30\ncurrent mark = 81%\n"),
                 Row(Some("j2"), "\nENG3UE : English Enriched\nBlock: P1 - rm. 30\n09-05 ~\n01-30\ncurrent mark = 81%\n") >>]

Students == {"amy", "bob", "cat", "dan", "eve", "fay", "gus", "hal", "ivy", "jon"}
GoodPassword == "pw"

\* the page the portal answers to the login request
LoginPage(username, password) ==
    IF password # GoodPassword \/ username \notin Students THEN BadLoginPage
    ELSE CASE username = "amy" -> AmyLanding
           [] username = "bob" -> BobLanding
           [] username = "cat" -> CatLanding
           [] username = "dan" -> DanLanding
           [] username = "eve" -> EveLanding
           [] username = "fay" -> FayLanding
           [] username = "hal" -> HalLanding
           [] username = "ivy" -> IvyLanding
           [] username = "jon" -> JonLanding
           [] OTHER            -> GusLanding

\* the session cookie the portal sets with that page
LoginCookie(username, password) ==
    IF password # GoodPassword \/ username \notin Students THEN None ELSE Some(username)

\* data.text(): the markup of the page
PageText(page) ==
    page.head \o Concat([k \in 1..Len(page.rows) |-> page.rows[k].text])

EmptyDetail == [trs |-> <<>>, wrows |-> <<>>]

AmyDetail1 ==
    [trs |-> << <<Td(FALSE, "", "Assignment"), Td(FALSE, "", "Marks")>>,
                <<Td(TRUE, "", "Quiz\t1"),
                  Td(FALSE, "ffffaa", "\t8 / 10 = 80%\nweight=25%\n"),
                  Td(FALSE, "c0fea4", "no mark")>>,
                <<Td(FALSE, "", " well done ")>>,
                <<Td(TRUE, "", "Essay"),
                  Td(FALSE, "afafff", "7.5 / 10 = 75%\nweight=10%\nnot finished")>> >>,
     wrows |-> << WRow("#ffffaa", <<"Knowledge", "25%", "17.5%", "80%">>),
                  WRow("#cccccc", <<"Final/Culminating", "30%", "70%">>) >>]

AmyDetail2 ==
    [trs |-> << <<Td(FALSE, "", "Assignment")>>,
                <<Td(TRUE, "", "Unit test"), Td(FALSE, "ffffaa", "30 / 40 = 75%\nweight=15%")>>,
                <<Td(FALSE, "", "")>> >>,
     wrows |-> << WRow("#c0fea4", <<"Thinking", "20%", "14%", "75%">>) >>]

BobDetail1 ==
    [trs |-> << <<Td(FALSE, "", "Assignment")>>,
                <<Td(TRUE, "", "Test"), Td(FALSE, "ffd490", "18 / 20 = 90%\nweight=5%")>> >>,
     wrows |-> << WRow("#ffd490", <<"Application", "30%", "21%">>) >>]

\* two assignment rows, the first followed by a feedback row
IvyDetail1 ==
    [trs |-> << <<Td(FALSE, "", "Assignment"), Td(FALSE, "", "Marks")>>,
                <<Td(TRUE, "", "Unit 1\ttest"),
                  Td(FALSE, "ffffaa", "\t8 / 10 = 80%\nweight=25%\n"),
                  Td(FALSE, "afafff", "see teacher")>>,
                <<Td(FALSE, "", "\n Good work \n")>>,
                <<Td(TRUE, "", "Project"),
                  Td(FALSE, "#dedede", "45 / 50 = 90%\nweight=30%")>> >>,
     wrows |-> << WRow("#ffffaa", <<"Knowledge", "25%", "17.5%", "80%">>) >>]

JonDetail ==
    [trs |-> << <<Td(FALSE, "", "Assignment")>>,
                <<Td(TRUE, "", "Oral"), Td(FALSE, "afafff", "9 / 10 = 90%\nweight=10%")>>,
                <<Td(FALSE, "", "clear voice")>>,
                <<Td(TRUE, "", "Reading log"), Td(FALSE, "ffffaa", "not handed in")>> >>,
     wrows |-> << WRow("#afafff", <<"Communication", "25%", "17.5%", "90%">>),
                  WRow("#cccccc", <<"Final/Culminating", "30%", "70%">>) >>]

\* the path of the detail request: the link appended to the base path;
\* an undefined link reads "undefined"
LinkPath(link) == IF link = None THEN "undefined" ELSE link[1]

\* the page the portal answers to a detail request sent with the given
\* session cookie: the report of a course of that student, or a page
\* without tables
DetailPage(cookie, path) ==
    IF cookie = Some("amy") /\ path = "students/a1" THEN AmyDetail1
    ELSE IF cookie = Some("amy") /\ path = "students/a2" THEN AmyDetail2
    ELSE IF cookie = Some("bob") /\ path = "students/b1" THEN BobDetail1
    ELSE IF cookie = Some("ivy") /\ path = "students/i1" THEN IvyDetail1
    ELSE IF cookie = Some("jon") /\ path \in {"students/j1", "students/j2"} THEN JonDetail
    ELSE EmptyDetail

(***************************************************************************)
(* Inputs of a call: the request (body fields and method) and what the    *)
(* environment does to it (the result the CORS middleware passes to its   *)
(* callback, and which outbound request, if any, hits a network fault).   *)
(***************************************************************************)
Input(u, p, m, mw, f) ==
    [username |-> u, password |-> p, method |-> m, mw |-> mw, faultAt |-> f]

Usernames == {None, Some("")} \cup {Some(u) : u \in Students}
Passwords == {None, Some(""), Some(GoodPassword), Some("bad")}
Methods   == {"POST", "GET"}

Inputs ==
    { Input(u, p, m, mw, f) :
        u \in Usernames, p \in Passwords, m \in Methods,
        mw \in {"next", "error"}, f \in 0..MaxFault }

\* the inputs of the calls that run interleaved
ConcInputs ==
    { Input(Some("amy"), Some(GoodPassword), "POST", "next", 0),
      Input(Some("bob"), Some(GoodPassword), "POST", "next", 0),
      Input(Some("bob"), Some(GoodPassword), "POST", "next", 2),
      Input(Some("amy"), Some(GoodPassword), "POST", "next", 1),
      Input(Some("amy"), None, "POST", "next", 0),
      Input(Some("bob"), Some(GoodPassword), "POST", "error", 0) }

\* the inputs of calls that parse the same detail markup more than once
RepeatInputs ==
    { Input(Some("jon"), Some(GoodPassword), "POST", "next", 0),
      Input(Some("jon"), Some(GoodPassword), "POST", "next", 1),
      Input(Some("jon"), Some(GoodPassword), "POST", "next", 3),
      Input(Some("jon"), Some(GoodPassword), "POST", "error", 0) }

FaultMessage == "network fault"

(***************************************************************************)
(* State.                                                                  *)
(***************************************************************************)
VARIABLES
    input,      \* input[c]: the request of call c and its environment
    pc,         \* pc[c]: where call c is suspended
    cookieJar,  \* cookieJar[c]: the jar created by call c, 0 before that
    jars,       \* jars[j]: the session cookie held by jar j
    reqs,       \* reqs[c]: the outbound requests call c has issued, in order
    pending,    \* pending[c]: positions in reqs[c] of the requests in flight
    loginText,  \* loginText[c]: the text of the login response, once read
    courses,    \* courses[c]: the course list of call c
    origin,     \* origin[c][k]: the landing-page row courses[c][k] came from
    idx,        \* idx[c]: the loop variable i of the detail loop
    passes,     \* passes[c][k]: detail passes made over courses[c][k]
    response,   \* response[c]: the responses call c has sent, in order
    arg,        \* the argument of the parser that is run on its own
    out         \* its result, None until the parser has run

vars == <<input, pc, cookieJar, jars, reqs, pending, loginText, courses,
          origin, idx, passes, response, arg, out>>

\* the state of the calls of handler
handlerVars == <<input, pc, cookieJar, jars, reqs, pending, loginText, courses,
                 origin, idx, passes, response>>

Calls == DOMAIN input

\* Falsy without the case of the empty string
FalsyOnlyMissing(field) == field = None

\* !x of JavaScript for a body field
Falsy(field) == field = None \/ field = Some("")

ErrorResponse(status, message) ==
    [status |-> status, error |-> Some(message), courses |-> None]
CoursesResponse(list) ==
    [status |-> 200, error |-> None, courses |-> Some(list)]

InitCalls(n, ins) ==
    /\ input \in [1..n -> ins]
    /\ pc = [c \in 1..n |-> "middleware"]
    /\ cookieJar = [c \in 1..n |-> 0]
    /\ jars = <<>>
    /\ reqs = [c \in 1..n |-> <<>>]
    /\ pending = [c \in 1..n |-> {}]
    /\ loginText = [c \in 1..n |-> None]
    /\ courses = [c \in 1..n |-> <<>>]
    /\ origin = [c \in 1..n |-> <<>>]
    /\ idx = [c \in 1..n |-> 0]
    /\ passes = [c \in 1..n |-> <<>>]
    /\ response = [c \in 1..n |-> <<>>]

\* no parser is run on its own while handler is called
NoParserRun == arg = None /\ out = None

Init == InitCalls(1, Inputs) /\ NoParserRun
InitConc == InitCalls(NumCalls, ConcInputs) /\ NoParserRun
InitRepeat == InitCalls(NumCalls, RepeatInputs) /\ NoParserRun

(***************************************************************************)
(* Steps of handler.                                                       *)
(***************************************************************************)
\* FreshJar with one jar kept at module level and used by every call
SharedJar(js) == 1

\* new CookieJar(): the jar it creates, given the jars that exist
FreshJar(js) == Len(js) + 1

LoginPath(username, password) ==
    "index.php?username=" \o username \o "&password=" \o password
        \o "&submit=Login&subject_id=0"

LoginRequest(jar, username, password) ==
    [kind |-> "login", jar |-> jar, cookie |-> None,
     path |-> LoginPath(username, password), query |-> <<username, password>>]

\* cookieFetch(cookieJar, base + link): the request carries the cookie the
\* jar holds when it is sent
DetailRequest(jar, cookie, link) ==
    [kind |-> "detail", jar |-> jar, cookie |-> cookie,
     path |-> "students/" \o LinkPath(link), query |-> <<>>]

\* Classify with the tests in the order of the status codes
ClassifyReordered(textData) ==
    IF includes(textData, "Session Expired") THEN Some(ErrorResponse(401, "Session Expired"))
    ELSE IF includes(textData, "Invalid Login") THEN Some(ErrorResponse(401, "Invalid Login"))
    ELSE IF includes(textData, "Access Denied") THEN Some(ErrorResponse(403, "Access Denied"))
    ELSE None

\* the three marker tests on the text of the login response
Classify(textData) ==
    IF includes(textData, "Invalid Login") THEN Some(ErrorResponse(401, "Invalid Login"))
    ELSE IF includes(textData, "Access Denied") THEN Some(ErrorResponse(403, "Access Denied"))
    ELSE IF includes(textData, "Session Expired") THEN Some(ErrorResponse(401, "Session Expired"))
    ELSE None

\* the test of the detail loop on course i (counted from 0) of the list:
\* a request is issued for every course of the list
NeedsRequest(list, i) == i < Len(list)

\* runMiddleware rejects: the await at the top of handler raises outside the
\* try block, and handler ends without a response
MiddlewareRejects(c) ==
    /\ c \in Calls
    /\ pc[c] = "middleware"
    /\ input[c].mw = "error"
    /\ pc' = [pc EXCEPT ![c] = "thrown"]
    /\ UNCHANGED <<input, cookieJar, jars, reqs, pending, loginText, courses,
                   origin, idx, passes, response, arg, out>>

\* the credential test, the method test and the login request, with the
\* jar that was just created
CheckAndLogin(c, inp, jar) ==
    IF Falsy(inp.username) \/ Falsy(inp.password)
    THEN /\ response' = [response EXCEPT ![c] =
                Append(@, ErrorResponse(400, "Invalid username or password"))]
         /\ pc' = [pc EXCEPT ![c] = "done"]
         /\ UNCHANGED <<reqs, pending>>
    ELSE IF inp.method = "POST"
    THEN /\ reqs' = [reqs EXCEPT ![c] =
                Append(@, LoginRequest(jar, inp.username[1], inp.password[1]))]
         /\ pending' = [pending EXCEPT ![c] = @ \cup {Len(reqs[c]) + 1}]
         /\ pc' = [pc EXCEPT ![c] = "login"]
         /\ UNCHANGED response
    ELSE /\ pc' = [pc EXCEPT ![c] = "done"]
         /\ UNCHANGED <<reqs, pending, response>>

\* runMiddleware resolves: handler reads the body, creates the jar, checks
\* the credentials and the method and issues the login request
Enter(c) ==
    /\ c \in Calls
    /\ pc[c] = "middleware"
    /\ input[c].mw = "next"
    /\ jars' = Append(jars, None)
    /\ cookieJar' = [cookieJar EXCEPT ![c] = FreshJar(jars)]
    /\ CheckAndLogin(c, input[c], FreshJar(jars))
    /\ UNCHANGED <<input, loginText, courses, origin, idx, passes, arg, out>>

\* the catch block: a failure response with the message of the error
Catch(c, message) ==
    /\ response' = [response EXCEPT ![c] = Append(@, ErrorResponse(500, message))]
    /\ pc' = [pc EXCEPT ![c] = "done"]

\* LoopFrom without the await: the requests of course i and of the course
\* after it are issued together
LoopFanOut(c, list, i, js, answered) ==
    /\ idx' = [idx EXCEPT ![c] = i]
    /\ IF i < Len(list)
       THEN /\ reqs' = [reqs EXCEPT ![c] =
                   Append(Append(@, DetailRequest(cookieJar[c], js[cookieJar[c]], list[i + 1].link)),
                          DetailRequest(cookieJar[c], js[cookieJar[c]], list[Len(list)].link))]
            /\ pending' = [pending EXCEPT ![c] =
                   (@ \ {answered}) \cup {Len(reqs[c]) + 1, Len(reqs[c]) + 2}]
            /\ pc' = [pc EXCEPT ![c] = "detail"]
            /\ UNCHANGED response
       ELSE /\ response' = [response EXCEPT ![c] = Append(@, CoursesResponse(list))]
            /\ pending' = [pending EXCEPT ![c] = @ \ {answered}]
            /\ pc' = [pc EXCEPT ![c] = "done"]
            /\ UNCHANGED reqs

\* the head of the detail loop with i (counted from 0): the request for
\* course i is issued, or the loop ends and the list is the response.
\* answered is the request whose answer the call was waiting for.
LoopFrom(c, list, i, js, answered) ==
    /\ idx' = [idx EXCEPT ![c] = i]
    /\ IF NeedsRequest(list, i)
       THEN /\ reqs' = [reqs EXCEPT ![c] =
                   Append(@, DetailRequest(cookieJar[c], js[cookieJar[c]], list[i + 1].link))]
            /\ pending' = [pending EXCEPT ![c] = (@ \ {answered}) \cup {Len(reqs[c]) + 1}]
            /\ pc' = [pc EXCEPT ![c] = "detail"]
            /\ UNCHANGED response
       ELSE /\ response' = [response EXCEPT ![c] = Append(@, CoursesResponse(list))]
            /\ pending' = [pending EXCEPT ![c] = @ \ {answered}]
            /\ pc' = [pc EXCEPT ![c] = "done"]
            /\ UNCHANGED reqs

\* LoginFails with the request outside the try block: the fault escapes
LoginFaultEscapes(c) ==
    /\ c \in Calls
    /\ pc[c] = "login"
    /\ input[c].faultAt = Len(reqs[c])
    /\ pending' = [pending EXCEPT ![c] = @ \ {Len(reqs[c])}]
    /\ pc' = [pc EXCEPT ![c] = "thrown"]
    /\ UNCHANGED <<input, cookieJar, jars, reqs, loginText, courses, origin,
                   idx, passes, response, arg, out>>

\* the login request fails with a network fault
LoginFails(c) ==
    /\ c \in Calls
    /\ pc[c] = "login"
    /\ input[c].faultAt = Len(reqs[c])
    /\ pending' = [pending EXCEPT ![c] = @ \ {Len(reqs[c])}]
    /\ Catch(c, FaultMessage)
    /\ UNCHANGED <<input, cookieJar, jars, reqs, loginText, courses, origin,
                   idx, passes, arg, out>>

\* the last request call c has issued: the one it is waiting for
LastRequest(c) == reqs[c][Len(reqs[c])]

\* the extracted list is stored and the detail loop starts at course 0
StartLoop(c, list, origins, js, answered) ==
    /\ courses' = [courses EXCEPT ![c] = list]
    /\ origin' = [origin EXCEPT ![c] = origins]
    /\ passes' = [passes EXCEPT ![c] = [k \in 1..Len(list) |-> 0]]
    /\ LoopFrom(c, list, 0, js, answered)

\* AfterMarkers without the early returns
AfterMarkersNoReturn(c, failure, rows, js, answered) ==
    StartLoop(c, ExtractCourses(rows), ExtractOrigins(rows), js, answered)

\* the marker tests have given failure (None when no marker is present)
AfterMarkers(c, failure, rows, js, answered) ==
    IF failure # None
    THEN /\ response' = [response EXCEPT ![c] = Append(@, failure[1])]
         /\ pending' = [pending EXCEPT ![c] = @ \ {answered}]
         /\ pc' = [pc EXCEPT ![c] = "done"]
         /\ UNCHANGED <<reqs, courses, origin, idx, passes>>
    ELSE StartLoop(c, ExtractCourses(rows), ExtractOrigins(rows), js, answered)

\* the jar stores the cookie set by the answer, and the text is read
LoginAnswer(c, page, textData, js) ==
    /\ jars' = js
    /\ loginText' = [loginText EXCEPT ![c] = Some(textData)]
    /\ AfterMarkers(c, Classify(textData), page.rows, js, Len(reqs[c]))

\* the login response arrives: marker tests, course list extraction and the
\* start of the detail loop
LoginReply(c) ==
    /\ c \in Calls
    /\ pc[c] = "login"
    /\ input[c].faultAt # Len(reqs[c])
    /\ LoginAnswer(c,
           LoginPage(LastRequest(c).query[1], LastRequest(c).query[2]),
           PageText(LoginPage(LastRequest(c).query[1], LastRequest(c).query[2])),
           [jars EXCEPT ![LastRequest(c).jar] =
               LoginCookie(LastRequest(c).query[1], LastRequest(c).query[2])])
    /\ UNCHANGED <<input, cookieJar, arg, out>>

\* DetailFails with a retry: the failed request is issued again
DetailRetries(c) ==
    /\ c \in Calls
    /\ pc[c] = "detail"
    /\ input[c].faultAt = Len(reqs[c])
    /\ reqs' = [reqs EXCEPT ![c] = Append(@, reqs[c][Len(reqs[c])])]
    /\ pending' = [pending EXCEPT ![c] = {Len(reqs[c]) + 1}]
    /\ UNCHANGED <<input, pc, cookieJar, jars, loginText, courses, origin,
                   idx, passes, response, arg, out>>

\* a detail request fails with a network fault
DetailFails(c) ==
    /\ c \in Calls
    /\ pc[c] = "detail"
    /\ input[c].faultAt = Len(reqs[c])
    /\ pending' = [pending EXCEPT ![c] = @ \ {Len(reqs[c])}]
    /\ Catch(c, FaultMessage)
    /\ UNCHANGED <<input, cookieJar, jars, reqs, loginText, courses, origin,
                   idx, passes, arg, out>>

\* WriteCourse without the two conditional expressions: a collection that
\* is empty is not written, and the field is removed
WriteOmitsEmpty(list, i, assignments, weight_table) ==
    [list EXCEPT ![i + 1] =
        IF assignments = <<>> \/ weight_table = EmptyMap
        THEN [f \in DOMAIN list[i + 1] \ {"assignments", "weight_table"} |-> list[i + 1][f]]
        ELSE [@ EXCEPT !.assignments = assignments, !.weight_table = weight_table]]

\* WriteCourse with the two collections written to every course of the list
WriteEveryCourse(list, i, assignments, weight_table) ==
    [k \in 1..Len(list) |->
        [list[k] EXCEPT !.assignments = assignments, !.weight_table = weight_table]]

\* courses[i].assignments = ...; courses[i].weight_table = ...
WriteCourse(list, i, assignments, weight_table) ==
    [list EXCEPT ![i + 1] =
        [@ EXCEPT !.assignments = assignments, !.weight_table = weight_table]]

\* the list is written and the loop goes on with course i + 1
Written(c, list, answered) ==
    /\ courses' = [courses EXCEPT ![c] = list]
    /\ passes' = [passes EXCEPT ![c][idx[c] + 1] = @ + 1]
    /\ LoopFrom(c, list, idx[c] + 1, jars, answered)

\* both parsers have run on the detail page
AfterParsers(c, assignments, weight_table, answered) ==
    IF assignments.t = "throw"
    THEN /\ pending' = [pending EXCEPT ![c] = @ \ {answered}]
         /\ Catch(c, "TypeError")
         /\ UNCHANGED <<reqs, courses, idx, passes>>
    ELSE Written(c, WriteCourse(courses[c], idx[c], assignments.v, weight_table), answered)

\* DetailAnswer with the list of assignments declared before the loop: the
\* parse of a course starts from the assignments of the course before it
DetailAnswerCarriesOver(c, page) ==
    AfterParsers(c,
        EachRow(page.trs, 1, FirstCounter + 1,
                IF idx[c] = 0 THEN <<>> ELSE courses[c][idx[c]].assignments),
        ParseWeightTable(page.wrows), Len(reqs[c]))

DetailAnswer(c, page) ==
    AfterParsers(c, ParseAssignments(page.trs), ParseWeightTable(page.wrows), Len(reqs[c]))

\* the detail page of course idx arrives: both parsers run, the course is
\* written, and the loop goes on with the next course
DetailReply(c) ==
    /\ c \in Calls
    /\ pc[c] = "detail"
    /\ input[c].faultAt # Len(reqs[c])
    /\ DetailAnswer(c, DetailPage(LastRequest(c).cookie, LastRequest(c).path))
    /\ UNCHANGED <<input, cookieJar, jars, loginText, origin, arg, out>>

Next ==
    \E c \in 1..NumCalls :
        \/ MiddlewareRejects(c)
        \/ Enter(c)
        \/ LoginFails(c)
        \/ LoginReply(c)
        \/ DetailFails(c)
        \/ DetailReply(c)

Spec == Init /\ [][Next]_vars
SpecConc == InitConc /\ [][Next]_vars
SpecRepeat == InitRepeat /\ [][Next]_vars

(***************************************************************************)
(* The parsers run on their own.  A parser is a function of its argument:  *)
(* the argument is drawn from a bounded set of texts (or rows, or tables), *)
(* no call of handler is running, and one step applies the parser.         *)
(***************************************************************************)
MaxFragments == 2  \* a mark text is made of at most MaxFragments fragments

\* no call of handler, and a parser about to run on an argument of args
InitParser(args) ==
    /\ InitCalls(0, Inputs)
    /\ arg \in args
    /\ out = None

\* pieces of the mark line of a course row: banners of the three kinds,
\* banners without their number or without their token, and other text
MarkFragments ==
    { "FINAL MARK: 87.5%", "FINALMARK:90.50%", "current mark = 72.3%",
      "currentmark=0%", "MIDTERM MARK: 60%", "FINAL pending", "FINAL MARK: %",
      "currentmark", "MIDTERM", "Level 4 ", "%" }

\* a number as the portal writes it, with the number it denotes
Numerals ==
    { [digits |-> "87.5",  value |-> Num(87, "5")],
      [digits |-> "72.3",  value |-> Num(72, "3")],
      [digits |-> "90.50", value |-> Num(90, "5")],
      [digits |-> "100",   value |-> Num(100, "")],
      [digits |-> "7",     value |-> Num(7, "")],
      [digits |-> "0",     value |-> Zero] }

\* the run of spaces put between the words of a banner
Gaps == {"", " ", "   "}

BannerKinds == {"final", "current", "midterm"}

\* a well-formed banner of the given kind, its words g apart
Banner(kind, digits, g) ==
    CASE kind = "final"   -> g \o "FINAL" \o g \o "MARK:" \o g \o digits \o g \o "%" \o g
      [] kind = "current" -> g \o "current" \o g \o "mark" \o g \o "=" \o g \o digits \o g \o "%" \o g
      [] OTHER            -> g \o "MIDTERM" \o g \o "MARK:" \o g \o digits \o g \o "%" \o g

SingleBanners == { Banner(k, n.digits, g) : k \in BannerKinds, n \in Numerals, g \in Gaps }

FragmentTexts ==
    { Concat(fs) : fs \in UNION { [1..n -> MarkFragments] : n \in 0..MaxFragments } }

MarkTexts == FragmentTexts \cup SingleBanners

InitMark == InitParser(MarkTexts)

\* parseOverallMark(arg)
ApplyParseOverallMark ==
    /\ out = None
    /\ out' = Some(parseOverallMark(arg))
    /\ UNCHANGED <<arg, handlerVars>>

SpecMark == InitMark /\ [][ApplyParseOverallMark]_vars

\* the 4th non-empty line of a course row: an end date, with or without the
\* note that the course was dropped
FourthLines ==
    { "06-20", " Jun 20 Dropped on May 15 ", "01-30  Dropped on\t11-12", "Dropped on May 15",
      "Jun 20 Dropped on", "Jun 20 Dropped", "Dropped Jun 20 Dropped on May 15" }

\* what stands between the 3rd and the 4th non-empty line: nothing, or
\* lines of white space
Pads == {"", " \n\t\n"}

\* the mark line of a course row; "" when the row has none
MarkLines == {"", "current mark = 80%", "FINAL MARK: 90%", "FINAL pending"}

RowText(pad, line4, markLine) ==
    "\nSCH3U : Chemistry\n Block: P2 - rm. 14 \n09-05 ~\n" \o pad \o line4 \o "\n" \o markLine \o "\n"

CourseRows ==
    { Row(link, RowText(pad, l4, ml)) :
        link \in {None, Some("c1")}, pad \in Pads, l4 \in FourthLines, ml \in MarkLines }

InitRow == InitParser(CourseRows)

\* the body of the callback of the course list extraction, run on row arg
ApplyParseCourseRow ==
    /\ out = None
    /\ out' = Some(ParseCourseRow(arg))
    /\ UNCHANGED <<arg, handlerVars>>

SpecRow == InitRow /\ [][ApplyParseCourseRow]_vars

MaxRows == 3       \* a detail table has at most MaxRows rows

\* rows of the table of a detail page: the header, a feedback row, and
\* assignment rows whose coloured cells are well formed, hold a malformed
\* number, lack a separator, are empty, or have the colour of no category
TableRows ==
    { <<Td(FALSE, "", "Assignment"), Td(FALSE, "", "Marks")>>,
      <<Td(FALSE, "", "\n Good work \n")>>,
      <<Td(TRUE, "", "Quiz\t1"),
        Td(FALSE, "ffffaa", "\t8 / 10 = 80%\nweight=25%\n"),
        Td(FALSE, "c0fea4", "7.5 / 10 = 75%\nweight=10%\nnot finished")>>,
      <<Td(TRUE, "", "Lab"),
        Td(FALSE, "ffd490", "abc / 10 = 80%\nweight=5%"),
        Td(FALSE, "afafff", "9 / 10 = 90%\nweight=5%")>>,
      <<Td(TRUE, "", "Essay"),
        Td(FALSE, "eeeeee", "no mark"),
        Td(FALSE, "ffffaa", "18 / 20 = 90%\nweight=15%")>>,
      <<Td(TRUE, "", "Exam"),
        Td(FALSE, "#dedede", "45 / 50 = 90%\nweight=30%"),
        Td(FALSE, "dedede", "1 / 1 = 100%\nweight=1%"),
        Td(FALSE, "ffffff", "2 / 2 = 100%\nweight=2%")>>,
      <<Td(TRUE, "", "Journal"),
        Td(FALSE, "ffffaa", " \t "),
        Td(FALSE, "ffd490", "8 / 10\nweight=25%"),
        Td(FALSE, "c0fea4", "8 / 10 = 80%\nweight=%")>>,
      <<Td(TRUE, "", "Draft"),
        Td(FALSE, "eeeeee", "no mark"),
        Td(FALSE, "afafff", "absent")>> }

DetailTables == UNION { [1..n -> TableRows] : n \in 0..MaxRows }

InitTable == InitParser(DetailTables)

\* the assignment table parser, run on the rows arg
ApplyParseAssignments ==
    /\ out = None
    /\ out' = Some(ParseAssignments(arg))
    /\ UNCHANGED <<arg, handlerVars>>

SpecTable == InitTable /\ [][ApplyParseAssignments]_vars

MaxLongRows == 5 \* a long table has at most MaxLongRows rows

\* the rows of the long tables: the two rows without a name cell, an
\* assignment row with well-formed cells and one whose cells all fail
LongTableRows ==
    { tr \in TableRows :
        \/ \A n \in 1..Len(tr) : ~tr[n].rowspan2
        \/ RowspanText(tr) \in {"Quiz\t1", "Draft"} }

LongTables == UNION { [1..n -> LongTableRows] : n \in 0..MaxLongRows }

InitLongTable == InitParser(LongTables)

SpecLongTable == InitLongTable /\ [][ApplyParseAssignments]_vars

\* the text of a category cell, tabs stripped and trimmed: a mark with its
\* separators, the weight on the same or on the next line, and a note
WeightSeparators == {" ", "\n"}
Notes == {"", " finished", "\nnot finished"}
Totals == { n \in Numerals : n.digits \in {"100", "7"} }

CellText(get, total, sep, mid, weight, note) ==
    get \o " / " \o total \o " = 80%" \o mid \o sep \o "weight=" \o weight \o "%" \o note

CellTexts ==
    { CellText(g.digits, t.digits, sep, mid, w.digits, note) :
        g \in Numerals, t \in Totals, sep \in WeightSeparators,
        mid \in {"", " (unfinished)"}, w \in Numerals, note \in Notes }

InitCell == InitParser(CellTexts)

\* the try/catch of one category, run on the text arg
ApplyParseMark ==
    /\ out = None
    /\ out' = Some(ParseMark(arg))
    /\ UNCHANGED <<arg, handlerVars>>

SpecCell == InitCell /\ [][ApplyParseMark]_vars

MaxWeightRows == 2 \* a weight table has at most MaxWeightRows coloured rows

\* rows of the table of weights: a label and percentages, with four, three,
\* two or no cells, with the label of the final task, with a text in place
\* of a number, and with a colour that no category of the table has
WeightRows ==
    { WRow("#ffffaa", <<"Knowledge", "87.5%", "72.3%", "100%">>),
      WRow("#ffffaa", <<"7%", "0%">>),
      WRow("#ffd490", <<"Application", "90.50%", "7%">>),
      WRow("#c0fea4", <<" Thinking ", " 7% ", "n/a", "72.3">>),
      WRow("#afafff", <<>>),
      WRow("#eeeeee", <<"Final project", "100%", "7%", "87.5%">>),
      WRow("#cccccc", <<"Final/Culminating", "90.50%", "100%">>),
      WRow("#cccccc", <<"Final", "72.3%">>),
      WRow("#dedede", <<"Exam", "7%", "7%", "7%">>),
      WRow("ffd490", <<"Application", "87.5%", "72.3%", "100%">>) }

WeightTables == UNION { [1..n -> WeightRows] : n \in 0..MaxWeightRows }

InitWeights == InitParser(WeightTables)

\* the weight table parser, run on the rows arg
ApplyParseWeightTable ==
    /\ out = None
    /\ out' = Some(ParseWeightTable(arg))
    /\ UNCHANGED <<arg, handlerVars>>

SpecWeights == InitWeights /\ [][ApplyParseWeightTable]_vars

(***************************************************************************)
(* Properties.                                                             *)
(***************************************************************************)
MissingCredential(c) ==
    \/ input[c].username \in {None, Some("")}
    \/ input[c].password \in {None, Some("")}

\* the landing page the portal serves to call c
LandingOf(c) == LoginPage(input[c].username[1], input[c].password[1])

HasInvalidLogin(t)   == includes(t, "Invalid Login")
HasAccessDenied(t)   == includes(t, "Access Denied")
HasSessionExpired(t) == includes(t, "Session Expired")
AnyMarker(t) == HasInvalidLogin(t) \/ HasAccessDenied(t) \/ HasSessionExpired(t)

DetailRequests(c) == {n \in 1..Len(reqs[c]) : reqs[c][n].kind = "detail"}
Linked(c) == {k \in 1..Len(courses[c]) : courses[c][k].link # None}
Succeeded(c) == pc[c] = "done" /\ Len(response[c]) = 1 /\ response[c][1].status = 200

\* C1: when username or password is missing or empty, the call issues no
\* outbound request at any time, and once handler has read the body the
\* call has ended with the single response 400 "Invalid username or password".
C1_NoRequestOnInputError ==
    \A c \in Calls :
        MissingCredential(c) =>
            /\ reqs[c] = <<>>
            /\ pending[c] = {}
            /\ (pc[c] # "middleware" /\ input[c].mw = "next") =>
                   /\ pc[c] = "done"
                   /\ response[c] = <<ErrorResponse(400, "Invalid username or password")>>

C1_Witness ==
    \E c \in Calls :
        /\ input[c].username = Some("")
        /\ input[c].password = Some(GoodPassword)
        /\ pc[c] = "done"
        /\ response[c] = <<ErrorResponse(400, "Invalid username or password")>>

\* C2: the text of the login response is reported as the first marker it
\* contains in the order "Invalid Login", "Access Denied", "Session Expired";
\* a text with none of them is not reported as a login failure and the
\* course list is extracted from the rows of that same page.
C2_MarkerPriority ==
    \A c \in Calls :
        loginText[c] # None =>
            /\ HasInvalidLogin(loginText[c][1]) =>
                   response[c] = <<ErrorResponse(401, "Invalid Login")>>
            /\ (~HasInvalidLogin(loginText[c][1]) /\ HasAccessDenied(loginText[c][1])) =>
                   response[c] = <<ErrorResponse(403, "Access Denied")>>
            /\ (/\ ~HasInvalidLogin(loginText[c][1])
                /\ ~HasAccessDenied(loginText[c][1])
                /\ HasSessionExpired(loginText[c][1])) =>
                   response[c] = <<ErrorResponse(401, "Session Expired")>>
            /\ ~AnyMarker(loginText[c][1]) =>
                   /\ \A n \in 1..Len(response[c]) : response[c][n].status \notin {401, 403}
                   /\ loginText[c][1] = PageText(LandingOf(c))
                   /\ origin[c] = ExtractOrigins(LandingOf(c).rows)
                   /\ Len(courses[c]) = Len(origin[c])

\* a page with two markers, the later one of the order first in the text
C2_Witness ==
    \E c \in Calls :
        /\ loginText[c] # None
        /\ HasSessionExpired(loginText[c][1])
        /\ HasAccessDenied(loginText[c][1])
        /\ IndexOf(loginText[c][1], "Session Expired") < IndexOf(loginText[c][1], "Access Denied")
        /\ response[c] = <<ErrorResponse(403, "Access Denied")>>

\* C3: when the login response contains a failure marker the call has ended
\* with that error: the login request is its only outbound request, no
\* detail request follows and the response carries no course list.
C3_ShortCircuit ==
    \A c \in Calls :
        (loginText[c] # None /\ AnyMarker(loginText[c][1])) =>
            /\ Len(reqs[c]) = 1
            /\ reqs[c][1].kind = "login"
            /\ pending[c] = {}
            /\ pc[c] = "done"
            /\ Len(response[c]) = 1
            /\ response[c][1].status \in {401, 403}
            /\ response[c][1].courses = None

\* a failure page that also holds a course row with a link
C3_Witness ==
    \E c \in Calls :
        /\ loginText[c] # None
        /\ AnyMarker(loginText[c][1])
        /\ \E k \in 1..Len(ExtractCourses(LandingOf(c).rows)) :
               ExtractCourses(LandingOf(c).rows)[k].link # None
        /\ pc[c] = "done"

\* C4: no detail request is issued for a course without a link, such a
\* course keeps empty assignments and an empty weight_table, and a call that
\* succeeds has issued as many detail requests as there are courses with a
\* link.
C4_SkipsCoursesWithoutLink ==
    \A c \in Calls :
        /\ \A n \in DetailRequests(c) : reqs[c][n].path # "students/undefined"
        /\ \A k \in 1..Len(courses[c]) :
               courses[c][k].link = None =>
                   courses[c][k].assignments = <<>> /\ courses[c][k].weight_table = <<>>
        /\ Succeeded(c) => Cardinality(DetailRequests(c)) = Cardinality(Linked(c))

\* C5: at most one request of a call is in flight, and it is the last one
\* issued; the first request is the login and a detail request is issued
\* only after the login response was read; the n-th detail request is for
\* course n, and it is issued only after the courses before it were written.
C5_Sequential ==
    \A c \in Calls :
        /\ Cardinality(pending[c]) <= 1
        /\ pending[c] \subseteq {Len(reqs[c])}
        /\ \A n \in 1..Len(reqs[c]) :
               /\ (n = 1) <=> (reqs[c][n].kind = "login")
               /\ n > 1 =>
                      /\ loginText[c] # None
                      /\ n - 1 <= Len(courses[c])
                      /\ reqs[c][n].path = "students/" \o LinkPath(courses[c][n - 1].link)
                      /\ \A k \in 1..(n - 2) : passes[c][k] = 1

\* the request of the second course is in flight, the first course written
C5_Witness ==
    \E c \in Calls :
        /\ Len(reqs[c]) = 3
        /\ pending[c] = {3}
        /\ passes[c][1] = 1
        /\ courses[c][1].assignments # <<>>

\* the answer of a call that runs alone, from the detail loop at course i
\* (counted from 0): request i + 2 of the call is the one for course i
RECURSIVE AloneLoop(_, _, _, _)
AloneLoop(list, i, cookie, faultAt) ==
    IF i >= Len(list) THEN <<CoursesResponse(list)>>
    ELSE IF faultAt = i + 2 THEN <<ErrorResponse(500, FaultMessage)>>
    ELSE AloneLoop(
           WriteCourse(list, i,
               ParseAssignments(DetailPage(cookie, "students/" \o LinkPath(list[i + 1].link)).trs).v,
               ParseWeightTable(DetailPage(cookie, "students/" \o LinkPath(list[i + 1].link)).wrows)),
           i + 1, cookie, faultAt)

AloneAfterLogin(page, cookie, faultAt) ==
    IF HasInvalidLogin(PageText(page)) THEN <<ErrorResponse(401, "Invalid Login")>>
    ELSE IF HasAccessDenied(PageText(page)) THEN <<ErrorResponse(403, "Access Denied")>>
    ELSE IF HasSessionExpired(PageText(page)) THEN <<ErrorResponse(401, "Session Expired")>>
    ELSE AloneLoop(ExtractCourses(page.rows), 0, cookie, faultAt)

\* the responses of a call with input inp that runs alone
RunAlone(inp) ==
    IF inp.mw = "error" THEN <<>>
    ELSE IF inp.username \in {None, Some("")} \/ inp.password \in {None, Some("")}
    THEN <<ErrorResponse(400, "Invalid username or password")>>
    ELSE IF inp.method # "POST" THEN <<>>
    ELSE IF inp.faultAt = 1 THEN <<ErrorResponse(500, FaultMessage)>>
    ELSE AloneAfterLogin(LoginPage(inp.username[1], inp.password[1]),
                         LoginCookie(inp.username[1], inp.password[1]), inp.faultAt)

\* C6: every outbound request of a call uses the jar that call created, no
\* two calls hold the same jar, and a call that has ended has answered what
\* it answers when it runs alone.
C6_CallsIsolated ==
    \A c \in Calls :
        /\ \A n \in 1..Len(reqs[c]) :
               reqs[c][n].jar = cookieJar[c] /\ cookieJar[c] \in 1..Len(jars)
        /\ \A d \in Calls \ {c} : cookieJar[c] # 0 => cookieJar[c] # cookieJar[d]
        /\ pc[c] \in {"done", "thrown"} => response[c] = RunAlone(input[c])

\* two calls of different students wait for a detail page at the same time,
\* one of them for its second course
C6_Witness ==
    \E c \in Calls : \E d \in Calls \ {c} :
        /\ input[c].username # input[d].username
        /\ pc[c] = "detail" /\ pc[d] = "detail"
        /\ Len(reqs[c]) = 3
        /\ cookieJar[d] < cookieJar[c]

\* request n of call c has hit its network fault
Failed(c) ==
    /\ input[c].faultAt \in 1..Len(reqs[c])
    /\ input[c].faultAt \notin pending[c]

\* C7: the login is requested once and each course at most once (request
\* n + 1, if issued, is the one request for course n), and when a request
\* has failed the call has ended with the single response 500 carrying the
\* message of the fault, without a course list and without a later request.
C7_NoRetry ==
    \A c \in Calls :
        /\ Len(reqs[c]) <= 1 + Len(courses[c])
        /\ Cardinality({n \in 1..Len(reqs[c]) : reqs[c][n].kind = "login"}) <= 1
        /\ \A n \in 2..Len(reqs[c]) :
               reqs[c][n].path = "students/" \o LinkPath(courses[c][n - 1].link)
        /\ Failed(c) =>
               /\ pc[c] = "done"
               /\ Len(reqs[c]) = input[c].faultAt
               /\ response[c] = <<ErrorResponse(500, FaultMessage)>>

\* the second detail request failed after the first course was written
C7_Witness ==
    \E c \in Calls :
        /\ input[c].faultAt = 3
        /\ Failed(c)
        /\ passes[c][1] = 1
        /\ courses[c][1].assignments # <<>>
        /\ response[c] = <<ErrorResponse(500, FaultMessage)>>

\* C8 as stated: no exception leaves handler, and every exception raised in
\* a call is answered by a failure response.
C8_NothingEscapes ==
    \A c \in Calls :
        /\ pc[c] # "thrown"
        /\ Failed(c) => response[c] = <<ErrorResponse(500, FaultMessage)>>

\* C8 amended: an exception raised from the login request on is caught once
\* and answered by the single response 500 carrying its message; the only
\* exception that leaves handler is the rejection of the CORS middleware,
\* raised before the try block, before any jar, request or response.
C8_CaughtInsideTry ==
    \A c \in Calls :
        /\ Failed(c) =>
               /\ pc[c] = "done"
               /\ response[c] = <<ErrorResponse(500, FaultMessage)>>
        /\ pc[c] = "thrown" =>
               /\ input[c].mw = "error"
               /\ cookieJar[c] = 0
               /\ reqs[c] = <<>>
               /\ response[c] = <<>>

\* the login request failed and the call answered 500
C8_Witness ==
    \E c \in Calls :
        /\ input[c].faultAt = 1
        /\ Failed(c)
        /\ pc[c] = "done"
        /\ response[c] = <<ErrorResponse(500, FaultMessage)>>

\* the number of lines of a row text that are not empty once trimmed
NonEmptyLines(text) ==
    Cardinality({k \in 1..Len(split(text, "\n")) : trim(split(text, "\n")[k]) # ""})

\* C9: every course of the list was made from a row of the landing page
\* with more than 3 non-empty trimmed lines.
C9_ShortRowsNeverCourses ==
    \A c \in Calls :
        /\ Len(origin[c]) = Len(courses[c])
        /\ \A k \in 1..Len(origin[c]) :
               NonEmptyLines(LandingOf(c).rows[origin[c][k]].text) > 3

\* a list was extracted from a page that holds a row with 1 to 3 non-empty
\* lines
C9_Witness ==
    \E c \in Calls :
        /\ loginText[c] # None
        /\ Len(courses[c]) > 0
        /\ \E r \in 1..Len(LandingOf(c).rows) :
               /\ NonEmptyLines(LandingOf(c).rows[r].text) \in 1..3
               /\ Len(split(LandingOf(c).rows[r].text, "\n")) > 3

RowRaises(row) == ParseCourseRow(row).t = "throw"
RowWellFormed(row) == ParseCourseRow(row).t = "ok" /\ ParseCourseRow(row).v # None

\* C10: on a landing page without failure marker, the courses of the list
\* are made from exactly the rows that parse to a course, in document
\* order, whatever rows raise; and the call does not end in a failure
\* because of such a row.
C10_RowErrorsAreLocal ==
    \A c \in Calls :
        (loginText[c] # None /\ ~AnyMarker(loginText[c][1])) =>
            /\ \A k \in 1..(Len(origin[c]) - 1) : origin[c][k] < origin[c][k + 1]
            /\ {origin[c][k] : k \in 1..Len(origin[c])}
                   = {r \in 1..Len(LandingOf(c).rows) : RowWellFormed(LandingOf(c).rows[r])}
            /\ \A k \in 1..Len(origin[c]) :
                   courses[c][k].code = ParseCourseRow(LandingOf(c).rows[origin[c][k]]).v[1].code
            /\ pc[c] # "thrown"
            /\ (pc[c] = "done" /\ ~Failed(c)) => Succeeded(c)

\* a call succeeded with a course made from a row that follows a row that
\* raised
C10_Witness ==
    \E c \in Calls :
        /\ Succeeded(c)
        /\ \E k \in 1..Len(origin[c]) : \E r \in 1..(origin[c][k] - 1) :
               RowRaises(LandingOf(c).rows[r])

\* the text without its spaces
RECURSIVE NoSpaces(_)
NoSpaces(t) ==
    IF t = "" THEN ""
    ELSE (IF CharAt(t, 1) = " " THEN "" ELSE CharAt(t, 1)) \o NoSpaces(SubSeq(t, 2, Len(t)))

\* the text holds a well-formed banner with the given token
HasBanner(t, token) ==
    \E n \in Numerals : includes(NoSpaces(t), token \o n.digits \o "%")

\* the numerals of the banner that the first occurrence of token starts
LeadingBanner(t, token) ==
    { n \in Numerals :
        /\ includes(NoSpaces(t), token)
        /\ StartsAt(NoSpaces(t), token \o n.digits \o "%", IndexOf(NoSpaces(t), token)) }

MarkRecord(mark, isFinal, isMidterm) ==
    [mark |-> mark, isFinal |-> isFinal, isMidterm |-> isMidterm]

\* C11: on a text that holds a final-mark banner and a current-mark banner,
\* in either order, parseOverallMark returns the number of the final-mark
\* banner with isFinal true and isMidterm false.
C11_FinalWins ==
    out # None =>
        \A n \in LeadingBanner(arg, "FINALMARK:") :
            HasBanner(arg, "currentmark=") =>
                out[1] = Ok(MarkRecord(n.value, TRUE, FALSE))

\* the current-mark banner comes first in the text
C11_Witness ==
    /\ out # None
    /\ StartsAt(NoSpaces(arg), "currentmark=72.3%", 1)
    /\ includes(NoSpaces(arg), "FINALMARK:87.5%")
    /\ out[1] = Ok(MarkRecord(Num(87, "5"), TRUE, FALSE))

\* no well-formed banner of any kind
NoPattern(t) ==
    /\ ~HasBanner(t, "FINALMARK:")
    /\ ~HasBanner(t, "currentmark=")
    /\ ~HasBanner(t, "MIDTERMMARK:")

\* C12: parseOverallMark never raises, a result without a number is the
\* sentinel "N/A" with both flags false, and a text without a well-formed
\* banner gives that result.
C12_SentinelWhenNoNumber ==
    out # None =>
        /\ out[1].t = "ok"
        /\ ~IsNum(out[1].v.mark) => out[1].v = MarkRecord(NA, FALSE, FALSE)
        /\ NoPattern(arg) => out[1].v = MarkRecord(NA, FALSE, FALSE)

\* C13: isFinal and isMidterm are never both true in a course of a call,
\* in particular not in a course of a returned list.
C13_FlagsExclusive ==
    \A c \in Calls :
        /\ \A k \in 1..Len(courses[c]) :
               ~(courses[c][k].isFinal /\ courses[c][k].isMidterm)
        /\ \A n \in 1..Len(response[c]) :
               response[c][n].courses # None =>
                   \A k \in 1..Len(response[c][n].courses[1]) :
                       ~(/\ response[c][n].courses[1][k].isFinal
                         /\ response[c][n].courses[1][k].isMidterm)

\* a returned list with a final course whose mark line also holds a midterm
\* banner
C13_Witness ==
    \E c \in Calls :
        /\ Succeeded(c)
        /\ \E k \in 1..Len(response[c][1].courses[1]) :
               /\ response[c][1].courses[1][k].isFinal
               /\ includes(LandingOf(c).rows[origin[c][k]].text, "MIDTERM MARK: 60%")

\* C14: on a text that is one well-formed banner, with any spacing,
\* parseOverallMark returns the number of the banner with the flags of its
\* kind ("FINAL MARK: n%" final, "currentmark=n%" neither, "MIDTERM MARK:
\* n%" midterm), and on the empty text the sentinel with both flags false.
C14_SinglePattern ==
    out # None =>
        /\ \A k \in BannerKinds : \A n \in Numerals : \A g \in Gaps :
               arg = Banner(k, n.digits, g) =>
                   out[1] = Ok(MarkRecord(n.value, k = "final", k = "midterm"))
        /\ arg = "" => out[1] = Ok(MarkRecord(NA, FALSE, FALSE))

\* a final-mark banner with spaces between its words
C14_Witness ==
    /\ arg = Banner("final", "87.5", "   ")
    /\ out = Some(Ok(MarkRecord(Num(87, "5"), TRUE, FALSE)))

\* the text before, and after, the first occurrence of tok in s
Before(s, tok) == SubSeq(s, 1, IndexOf(s, tok) - 1)
After(s, tok) == SubSeq(s, IndexOf(s, tok) + Len(tok), Len(s))

\* C15: in the course made from a row, when the 4th non-empty line contains
\* "Dropped on", end_time is the trimmed text before "Dropped" and
\* dropped_time the trimmed text after "Dropped on"; otherwise end_time is
\* the whole trimmed line and dropped_time is empty.
C15_DroppedSplit ==
    (out # None /\ out[1].t = "ok" /\ out[1].v # None) =>
        \A pad \in Pads : \A l4 \in FourthLines : \A ml \in MarkLines :
            arg.text = RowText(pad, l4, ml) =>
                IF includes(l4, "Dropped on")
                THEN /\ out[1].v[1].end_time = trim(Before(l4, "Dropped"))
                     /\ out[1].v[1].dropped_time = trim(After(l4, "Dropped on"))
                ELSE /\ out[1].v[1].end_time = trim(l4)
                     /\ out[1].v[1].dropped_time = ""

\* the row of the example, after lines of white space
C15_Witness ==
    /\ out # None
    /\ arg.text = RowText(" \n\t\n", " Jun 20 Dropped on May 15 ", "FINAL MARK: 90%")
    /\ out[1].t = "ok"
    /\ out[1].v # None
    /\ out[1].v[1].end_time = "Jun 20"
    /\ out[1].v[1].dropped_time = "May 15"

CategoryCodes == {"KU", "A", "T", "C", "O", "F"}

\* the course has its two collections: a sequence and a mapping on codes
HasCollections(course) ==
    /\ "assignments" \in DOMAIN course
    /\ "weight_table" \in DOMAIN course
    /\ DOMAIN course.assignments = 1..Len(course.assignments)
    /\ DOMAIN course.weight_table \subseteq CategoryCodes

\* the detail page the portal serves to call c for the course
DetailOf(c, course) ==
    DetailPage(LoginCookie(input[c].username[1], input[c].password[1]),
               "students/" \o LinkPath(course.link))

\* C16: every course of a call was made from one row of the landing page,
\* a different row for each course, and has had at most one detail pass;
\* it always has assignments, a sequence, and weight_table, a mapping; and
\* in a returned list both are empty for a course whose detail page has
\* nothing to parse.
C16_OnePassCollectionsPresent ==
    \A c \in Calls :
        /\ Len(origin[c]) = Len(courses[c])
        /\ Len(passes[c]) = Len(courses[c])
        /\ \A k \in 1..(Len(origin[c]) - 1) : origin[c][k] < origin[c][k + 1]
        /\ \A k \in 1..Len(courses[c]) :
               /\ origin[c][k] \in 1..Len(LandingOf(c).rows)
               /\ passes[c][k] <= 1
               /\ HasCollections(courses[c][k])
        /\ Succeeded(c) =>
               /\ Len(response[c][1].courses[1]) = Len(courses[c])
               /\ \A k \in 1..Len(courses[c]) :
                      /\ HasCollections(response[c][1].courses[1][k])
                      /\ DetailOf(c, courses[c][k]) = EmptyDetail =>
                             /\ response[c][1].courses[1][k].assignments = <<>>
                             /\ response[c][1].courses[1][k].weight_table = EmptyMap

\* a returned list with a course whose detail was parsed and a course whose
\* detail page had nothing to parse
C16_Witness ==
    \E c \in Calls :
        /\ Succeeded(c)
        /\ \E k \in 1..Len(courses[c]) :
               passes[c][k] = 1 /\ response[c][1].courses[1][k].assignments # <<>>
        /\ \E k \in 1..Len(courses[c]) :
               /\ passes[c][k] = 1
               /\ DetailOf(c, courses[c][k]) = EmptyDetail
               /\ response[c][1].courses[1][k].assignments = <<>>

\* a row of the detail table that holds the name cell of an assignment
IsAssignmentRow(tr) == \E n \in 1..Len(tr) : tr[n].rowspan2

\* the table is the header row, an assignment row, its feedback row with a
\* text, and a second assignment row that no row follows
TwoAssignmentsOneFeedback(trs) ==
    /\ Len(trs) = 4
    /\ ~IsAssignmentRow(trs[1])
    /\ IsAssignmentRow(trs[2])
    /\ ~IsAssignmentRow(trs[3])
    /\ trim(ElemText(trs[3])) # ""
    /\ IsAssignmentRow(trs[4])

\* C17: in a returned list, a course whose detail table is the header, an
\* assignment row followed by a feedback row, and a second assignment row
\* without one, has exactly 2 assignments, named after the two rows, the
\* first with a non-empty feedback and the second without feedback.
C17_EndToEnd ==
    \A c \in Calls :
        Succeeded(c) =>
            \A k \in 1..Len(response[c][1].courses[1]) :
                TwoAssignmentsOneFeedback(DetailOf(c, courses[c][k]).trs) =>
                    /\ Len(response[c][1].courses[1][k].assignments) = 2
                    /\ response[c][1].courses[1][k].assignments[1].name
                           = replaceAll(RowspanText(DetailOf(c, courses[c][k]).trs[2]), "\t", "")
                    /\ response[c][1].courses[1][k].assignments[2].name
                           = replaceAll(RowspanText(DetailOf(c, courses[c][k]).trs[4]), "\t", "")
                    /\ "feedback" \in DOMAIN response[c][1].courses[1][k].assignments[1]
                    /\ response[c][1].courses[1][k].assignments[1].feedback # ""
                    /\ "feedback" \notin DOMAIN response[c][1].courses[1][k].assignments[2]

\* valid credentials, a landing page with one course row, and that table
C17_Witness ==
    \E c \in Calls :
        /\ Succeeded(c)
        /\ Len(LandingOf(c).rows) = 2
        /\ Len(response[c][1].courses[1]) = 1
        /\ TwoAssignmentsOneFeedback(DetailOf(c, courses[c][1]).trs)
        /\ response[c][1].courses[1][1].assignments[1].feedback = "Good work"
        /\ response[c][1].courses[1][1].assignments[2].name = "Project"

\* the background colour of the cells of a category in the assignment table
CategoryColour(code) ==
    CASE code = "KU" -> "ffffaa"
      [] code = "A"  -> "ffd490"
      [] code = "T"  -> "c0fea4"
      [] code = "C"  -> "afafff"
      [] code = "O"  -> "eeeeee"
      [] OTHER       -> "#dedede"

\* the cells of the row with the colour of the category
CellsOf(tr, code) == { n \in 1..Len(tr) : tr[n].bgcolor = CategoryColour(code) }

\* C18: assignment j of the result is made from row 2j of the table; its
\* keys are among name, feedback and the six category codes, and it has the
\* key of a category only if row 2j holds a cell with the colour of that
\* category (no such cell, no key).
C18_KeysFromColouredCells ==
    (out # None /\ out[1].t = "ok") =>
        /\ Len(out[1].v) = Len(arg) \div 2
        /\ \A j \in 1..Len(out[1].v) :
               /\ DOMAIN out[1].v[j] \subseteq {"name", "feedback"} \cup CategoryCodes
               /\ "name" \in DOMAIN out[1].v[j]
               /\ \A code \in CategoryCodes :
                      code \in DOMAIN out[1].v[j] => CellsOf(arg[2 * j], code) # {}

\* an assignment with the keys of its two coloured cells, made from a row
\* that also holds cells with the colour of no category
C18_Witness ==
    /\ out # None
    /\ out[1].t = "ok"
    /\ \E j \in 1..Len(out[1].v) :
           /\ DOMAIN out[1].v[j] = {"name", "F"}
           /\ \E n \in 1..Len(arg[2 * j]) : arg[2 * j][n].bgcolor = "dedede"

\* digits with at most one point
IsNumeral(s) ==
    /\ \E k \in 1..Len(s) : IsDigit(CharAt(s, k))
    /\ \A k \in 1..Len(s) : IsDigit(CharAt(s, k)) \/ CharAt(s, k) = "."
    /\ Cardinality({k \in 1..Len(s) : CharAt(s, k) = "."}) <= 1

\* the text is "<get> / <total> = ... weight=<weight>%" with three numbers
WellFormedCell(text) ==
    /\ includes(text, " / ")
    /\ includes(After(text, " / "), " = ")
    /\ includes(text, "weight=")
    /\ includes(After(text, "weight="), "%")
    /\ IsNumeral(Before(text, " / "))
    /\ IsNumeral(Before(After(text, " / "), " = "))
    /\ IsNumeral(Before(After(text, "weight="), "%"))

\* the text of the cells of the row with the colour of the category
RECURSIVE CellsText(_, _)
CellsText(tr, code) ==
    IF tr = <<>> THEN ""
    ELSE (IF Head(tr).bgcolor = CategoryColour(code) THEN Head(tr).text ELSE "")
         \o CellsText(Tail(tr), code)

\* C19: when row 2j holds a coloured cell of a category whose text is not
\* "<get> / <total> = ... weight=<weight>%", the mark of that category in
\* assignment j is the placeholder {0, 0, 0, finished true}, and the
\* assignment is emitted with its name.
C19_PlaceholderWhenMalformed ==
    (out # None /\ out[1].t = "ok") =>
        /\ Len(out[1].v) = Len(arg) \div 2
        /\ \A j \in 1..Len(out[1].v) :
               /\ "name" \in DOMAIN out[1].v[j]
               /\ \A code \in CategoryCodes :
                      (/\ code \in DOMAIN out[1].v[j]
                       /\ ~WellFormedCell(trim(CellsText(arg[2 * j], code)))) =>
                          out[1].v[j][code]
                              = <<[get |-> Zero, total |-> Zero, weight |-> Zero, finished |-> TRUE]>>

\* C20: the mark parsed from "<get> / <total> = <p>% weight=<weight>%",
\* the weight on the same or on the next line, has those three numbers and
\* finished true; with "finished" somewhere in the text after the total it
\* has the same numbers and finished false.
C20_MarkOfCell ==
    out # None =>
        \A g \in Numerals : \A t \in Totals : \A w \in Numerals :
            \A sep \in WeightSeparators : \A mid \in {"", " (unfinished)"} : \A note \in Notes :
                arg = CellText(g.digits, t.digits, sep, mid, w.digits, note) =>
                    out[1] = [get |-> g.value, total |-> t.value, weight |-> w.value,
                              finished |-> (mid = "" /\ note = "")]

\* the cell of the example, and the same cell with the note
C20_Witness ==
    /\ out # None
    /\ \/ arg = "7 / 100 = 80% weight=72.3%"
       \/ arg = "7 / 100 = 80% weight=72.3% finished"
    /\ out[1].get = Num(7, "")
    /\ out[1].weight = Num(72, "3")
    /\ out[1].finished = (arg = "7 / 100 = 80% weight=72.3%")

\* the colour of the rows of a category in the table of weights
WeightColour(code) ==
    CASE code = "KU" -> "#ffffaa"
      [] code = "A"  -> "#ffd490"
      [] code = "T"  -> "#c0fea4"
      [] code = "C"  -> "#afafff"
      [] code = "O"  -> "#eeeeee"
      [] OTHER       -> "#cccccc"

\* the cell values collected for a category: the cells of its rows, in
\* document order
RECURSIVE Collected(_, _)
Collected(wrows, code) ==
    IF wrows = <<>> THEN <<>>
    ELSE (IF Head(wrows).bgcolor = WeightColour(code) THEN Head(wrows).cells ELSE <<>>)
         \o Collected(Tail(wrows), code)

Parsed(c, k) == k \in 1..Len(courses[c]) /\ passes[c][k] = 1

AsExtracted(course) == [course EXCEPT !.assignments = <<>>, !.weight_table = EmptyMap]

\* C23: the course list keeps the length and the order of the extracted
\* list, and every field of a course but assignments and weight_table keeps
\* its extracted value; a course that has had its detail pass holds exactly
\* the assignments and the weight table parsed from its own detail page,
\* and a course that has not had it still holds its empty collections.
C23_FullReplaceOwnCourseOnly ==
    \A c \in Calls :
        Len(courses[c]) > 0 =>
            /\ Len(courses[c]) = Len(ExtractCourses(LandingOf(c).rows))
            /\ \A k \in 1..Len(courses[c]) :
                   /\ AsExtracted(courses[c][k]) = ExtractCourses(LandingOf(c).rows)[k]
                   /\ passes[c][k] = 1 =>
                          /\ courses[c][k].assignments
                                 = ParseAssignments(DetailOf(c, courses[c][k]).trs).v
                          /\ courses[c][k].weight_table
                                 = ParseWeightTable(DetailOf(c, courses[c][k]).wrows)
                   /\ passes[c][k] = 0 =>
                          /\ courses[c][k].assignments = <<>>
                          /\ courses[c][k].weight_table = EmptyMap

\* the first course is written, with assignments and weights, and the
\* second course, whose page holds other assignments, is not yet
C23_Witness ==
    \E c \in Calls :
        /\ Len(courses[c]) = 2
        /\ passes[c] = <<1, 0>>
        /\ courses[c][1].assignments # <<>>
        /\ courses[c][1].weight_table # EmptyMap
        /\ DetailOf(c, courses[c][2]).trs # <<>>
        /\ DetailOf(c, courses[c][2]) # DetailOf(c, courses[c][1])

\* C24: on a text with "currentmark" and "MIDTERM" but without "FINAL" the
\* result is never a midterm: it is the number of the current-mark banner
\* with both flags false; on a text with "FINAL" the result is never taken
\* from a current-mark or midterm banner: parseOverallMark raises, or the
\* result is final with the number of the final-mark banner or no number.
C24_StrictPriority ==
    out # None =>
        /\ (/\ ~includes(NoSpaces(arg), "FINAL")
            /\ includes(NoSpaces(arg), "currentmark")
            /\ includes(NoSpaces(arg), "MIDTERM")) =>
               /\ out[1].t = "ok" => (~out[1].v.isFinal /\ ~out[1].v.isMidterm)
               /\ \A n \in LeadingBanner(arg, "currentmark=") :
                      out[1] = Ok(MarkRecord(n.value, FALSE, FALSE))
        /\ includes(NoSpaces(arg), "FINAL") =>
               \/ out[1].t = "throw"
               \/ /\ out[1].v.isFinal
                  /\ ~out[1].v.isMidterm
                  /\ \/ out[1].v.mark = NaN
                     \/ \E n \in LeadingBanner(arg, "FINALMARK:") : out[1].v.mark = n.value

\* a midterm banner in front of a current-mark banner, and a text with
\* "FINAL" without its number in front of a current-mark banner
C24_Witness ==
    /\ out # None
    /\ \/ /\ arg = "MIDTERM MARK: 60%current mark = 72.3%"
          /\ out[1] = Ok(MarkRecord(Num(72, "3"), FALSE, FALSE))
       \/ /\ arg = "FINAL MARK: %current mark = 72.3%"
          /\ out[1] = Ok(MarkRecord(NaN, TRUE, FALSE))

\* the number a collected value denotes: a numeral of the portal, with or
\* without its percent sign, or no number
ValueOf(text) ==
    IF \E n \in Numerals : trim(text) \in {n.digits, n.digits \o "%"}
    THEN (CHOOSE n \in Numerals : trim(text) \in {n.digits, n.digits \o "%"}).value
    ELSE NaN

\* C25: a category whose first collected value contains "Final" and that
\* has three values has W = 0 and CW, SA from its second and third values;
\* a category whose first value does not contain "Final" and that has four
\* values has W, CW, SA from its second, third and fourth values.
C25_FinalShiftsTheTriple ==
    out # None =>
        \A code \in CategoryCodes :
            /\ (/\ Len(Collected(arg, code)) >= 3
                /\ includes(Collected(arg, code)[1], "Final")) =>
                   /\ code \in DOMAIN out[1]
                   /\ out[1][code] = [W  |-> Zero,
                                      CW |-> ValueOf(Collected(arg, code)[2]),
                                      SA |-> ValueOf(Collected(arg, code)[3])]
            /\ (/\ Len(Collected(arg, code)) >= 4
                /\ ~includes(Collected(arg, code)[1], "Final")) =>
                   /\ code \in DOMAIN out[1]
                   /\ out[1][code] = [W  |-> ValueOf(Collected(arg, code)[2]),
                                      CW |-> ValueOf(Collected(arg, code)[3]),
                                      SA |-> ValueOf(Collected(arg, code)[4])]

\* a table with a row of the final task and a row with a label: the first
\* is read from its first value on, the second from its second value on
C25_Witness ==
    /\ out # None
    /\ Collected(arg, "O") = <<"Final project", "100%", "7%", "87.5%">>
    /\ out[1]["O"] = [W |-> Zero, CW |-> Num(100, ""), SA |-> Num(7, "")]
    /\ Collected(arg, "KU") = <<"Knowledge", "87.5%", "72.3%", "100%">>
    /\ out[1]["KU"] = [W |-> Num(87, "5"), CW |-> Num(72, "3"), SA |-> Num(100, "")]

\* the text without its tabs
RECURSIVE Untabbed(_)
Untabbed(s) ==
    IF s = "" THEN ""
    ELSE (IF CharAt(s, 1) = "\t" THEN "" ELSE CharAt(s, 1)) \o Untabbed(SubSeq(s, 2, Len(s)))

\* the text of the name cells of a row
RECURSIVE NameText(_, _)
NameText(tr, n) ==
    IF n > Len(tr) THEN ""
    ELSE (IF tr[n].rowspan2 THEN tr[n].text ELSE "") \o NameText(tr, n + 1)

C27_ExactlyOneResponse ==
    \A c \in Calls :
        (/\ ~Falsy(input[c].username)
         /\ ~Falsy(input[c].password)
         /\ input[c].mw = "next") =>
            /\ Len(response[c]) <= 1
            /\ pc[c] \in {"done", "thrown"} => Len(response[c]) = 1

\* C28 as stated: in a returned course list, a course with isFinal or
\* isMidterm true has a number as overall_mark; "N/A" goes with both flags
\* false only.
C28_FlaggedMarkIsNumber ==
    \A c \in Calls :
        Succeeded(c) =>
            \A k \in 1..Len(response[c][1].courses[1]) :
                (\/ response[c][1].courses[1][k].isFinal
                 \/ response[c][1].courses[1][k].isMidterm) =>
                    /\ response[c][1].courses[1][k].overall_mark # NA
                    /\ response[c][1].courses[1][k].overall_mark # NaN

\* the first collected value of the category names the final task
FinalFirst(wrows, code) ==
    Len(Collected(wrows, code)) > 0 /\ includes(Collected(wrows, code)[1], "Final")

C30_FeedbackOnLastOnly ==
    out # None =>
        /\ out[1].t = "ok"
        /\ Len(out[1].v) = Len(arg) \div 2
        /\ \A j \in 1..(Len(arg) \div 2) :
               /\ out[1].v[j] = IF 2 * j + 1 <= Len(arg)
                                THEN ("feedback" :> trim(ElemText(arg[2 * j + 1])))
                                         @@ ParseAssignmentRow(arg[2 * j])
                                ELSE ParseAssignmentRow(arg[2 * j])
               /\ \A code \in CategoryCodes :
                      (/\ trim(Untabbed(CellsText(arg[2 * j], code))) # ""
                       /\ ~includes(CellsText(arg[2 * j], code), " / ")) =>
                          /\ code \in DOMAIN out[1].v[j]
                          /\ out[1].v[j][code] = <<Placeholder>>

\* five rows: two assignments, each with the feedback of the row after it,
\* the second made from a row whose two coloured cells both fail to parse
C30_Witness ==
    /\ out # None
    /\ out[1].t = "ok"
    /\ Len(arg) = 5
    /\ Len(out[1].v) = 2
    /\ out[1].v[1].feedback = "Good work"
    /\ out[1].v[2] = ("name" :> "Draft") @@ ("feedback" :> "AssignmentMarks")
                         @@ ("O" :> <<Placeholder>>) @@ ("C" :> <<Placeholder>>)

====
